---------------------------- MODULE Spec2Model ----------------------------
(***************************************************************************)
(* Model of the Papillon chat screens.                                     *)
(*                                                                         *)
(*   ChatsView  (src/app/(features)/chats.tsx)  the conversation list:     *)
(*       state chats, loading, isManuallyLoading, chatPreviews;            *)
(*       handlers fetchChats, fetchChatPreview, onRefresh, openChat.       *)
(*   ChatModal  (src/unnamed/part_000)          one conversation thread:   *)
(*       state chat, messages, loading, text, canReply;                    *)
(*       handlers fetchMessages, send, onChangeText.                       *)
(*                                                                         *)
(* Every async function is a task whose position (pc) is the await it is   *)
(* suspended at.  A call to the manager is a record in `calls` from the    *)
(* moment it is issued until the continuation that awaits it consumes it;  *)
(* the manager answers a call in a step of its own, so that answers can    *)
(* arrive in any order.  A synchronous stretch of a handler (from its      *)
(* entry or from an await to the next await or to its end) is one action.  *)
(*                                                                         *)
(* Strings are sequences of one-character strings.                         *)
(***************************************************************************)
EXTENDS Integers, Sequences, FiniteSets, TLC

(***************************************************************************)
(* Bounds of the model.                                                    *)
(***************************************************************************)
\* number of times send passes its guard (async send tasks started)
MaxSends == 2
\* number of pull-to-refresh gestures on the list
MaxRefresh == 1
\* number of sends started while the list is still fetching previews
MaxOpenSends == 1
\* number of fragments a message body is made of
MaxFragments == 3
\* number of conversations the adapters report together
MaxChats == 3

(***************************************************************************)
(* Strings                                                                 *)
(***************************************************************************)
\* the characters String.fromCharCode produces for the code units the model
\* names; any other code unit n is the one-character token "\\u<n>"
CharOf ==
    (9 :> "\t") @@ (10 :> "\n") @@ (13 :> "\r") @@ (32 :> " ") @@ (34 :> "\"") @@ (35 :> "#") @@ (38 :> "&") @@ (39 :> "'")
    @@ (48 :> "0") @@ (49 :> "1") @@ (51 :> "3") @@ (54 :> "6") @@ (57 :> "9")
    @@ (59 :> ";") @@ (60 :> "<") @@ (62 :> ">") @@ (97 :> "a") @@ (98 :> "b")
    @@ (120 :> "x")

\* String.fromCharCode(num): the UTF-16 code unit num mod 2^16
FromCharCode(n) ==
    LET u == n % 65536
    IN  IF u \in DOMAIN CharOf THEN CharOf[u] ELSE "\\u" \o ToString(u)

\* the code units the regular expression class \s and String.prototype.trim
\* treat as white space (those below 2^8, and the byte order mark)
WhiteSpaceCodes == {9, 10, 11, 12, 13, 32, 160, 65279}

\* the character classes \s, \d and [0-9A-Fa-f]
SpaceChars == {FromCharCode(n) : n \in WhiteSpaceCodes}

DigitChars == {"0", "1", "2", "3", "4", "5", "6", "7", "8", "9"}

HexDigitChars ==
    DigitChars \cup {"a", "b", "c", "d", "e", "f", "A", "B", "C", "D", "E", "F"}

IsSpace(c) == c \in SpaceChars

RECURSIVE TrimStart(_)
TrimStart(s) ==
    IF s # <<>> /\ IsSpace(Head(s)) THEN TrimStart(Tail(s)) ELSE s

RECURSIVE TrimEnd(_)
TrimEnd(s) ==
    IF s # <<>> /\ IsSpace(s[Len(s)]) THEN TrimEnd(SubSeq(s, 1, Len(s) - 1)) ELSE s

\* String.prototype.trim
Trim(s) == TrimEnd(TrimStart(s))

\* does the literal pat occur in s at position i
MatchAt(s, i, pat) ==
    /\ i + Len(pat) - 1 <= Len(s)
    /\ SubSeq(s, i, i + Len(pat) - 1) = pat

\* s.replace(/p1|p2|.../g, rep) for literal alternatives pats (a sequence,
\* tried in order): leftmost matches, left to right, the replacement is
\* never rescanned; the text between two matches is copied
RECURSIVE ReplaceAllFrom(_, _, _, _)
ReplaceAllFrom(s, i, pats, rep) ==
    LET hits == {j \in i..Len(s) : \E k \in 1..Len(pats) : MatchAt(s, j, pats[k])}
    IN  IF hits = {} THEN SubSeq(s, i, Len(s))
        ELSE LET j == CHOOSE j \in hits : \A h \in hits : j <= h
                 k == CHOOSE k \in 1..Len(pats) :
                           /\ MatchAt(s, j, pats[k])
                           /\ \A l \in 1..(k - 1) : ~MatchAt(s, j, pats[l])
             IN  SubSeq(s, i, j - 1) \o rep
                     \o ReplaceAllFrom(s, j + Len(pats[k]), pats, rep)

ReplaceAll(s, pats, rep) == ReplaceAllFrom(s, 1, pats, rep)

\* the index of the last character of the longest run of characters
\* of the class cls that starts at i (i - 1 when the run is empty)
RECURSIVE RunEnd(_, _, _)
RunEnd(s, i, cls) ==
    IF i <= Len(s) /\ s[i] \in cls THEN RunEnd(s, i + 1, cls) ELSE i - 1

DigitVal(c) ==
    CASE c = "0" -> 0 [] c = "1" -> 1 [] c = "2" -> 2 [] c = "3" -> 3
      [] c = "4" -> 4 [] c = "5" -> 5 [] c = "6" -> 6 [] c = "7" -> 7
      [] c = "8" -> 8 [] c = "9" -> 9
      [] c \in {"a", "A"} -> 10 [] c \in {"b", "B"} -> 11
      [] c \in {"c", "C"} -> 12 [] c \in {"d", "D"} -> 13
      [] c \in {"e", "E"} -> 14 [] c \in {"f", "F"} -> 15

\* Number(code) for a run of decimal digits, parseInt(hex, 16) for a run of
\* hexadecimal digits
RECURSIVE ParseInt(_, _)
ParseInt(ds, radix) ==
    IF ds = <<>> THEN 0
    ELSE ParseInt(SubSeq(ds, 1, Len(ds) - 1), radix) * radix + DigitVal(ds[Len(ds)])

\* s.replace(/<prefix>(<class>+);/g, (_m, d) => String.fromCharCode(parse(d)))
\* the class is greedy and ";" is not in it, so a match is the prefix, the
\* longest run of the class (not empty) and a ";" right after the run; the
\* text between two matches is copied
RECURSIVE ReplaceNumericFrom(_, _, _, _, _)
ReplaceNumericFrom(s, i, prefix, cls, radix) ==
    LET hits == {j \in i..Len(s) :
                    LET b == j + Len(prefix)
                        e == RunEnd(s, b, cls)
                    IN  /\ MatchAt(s, j, prefix)
                        /\ e >= b
                        /\ e + 1 <= Len(s)
                        /\ s[e + 1] = ";"}
    IN  IF hits = {} THEN SubSeq(s, i, Len(s))
        ELSE LET j == CHOOSE j \in hits : \A h \in hits : j <= h
                 b == j + Len(prefix)
                 e == RunEnd(s, b, cls)
             IN  SubSeq(s, i, j - 1)
                     \o <<FromCharCode(ParseInt(SubSeq(s, b, e), radix))>>
                     \o ReplaceNumericFrom(s, e + 2, prefix, cls, radix)

\* s.replace(/\s{2,}/g, " "): the text between two runs is copied
RECURSIVE CollapseSpacesFrom(_, _)
CollapseSpacesFrom(s, i) ==
    LET hits == {j \in i..(Len(s) - 1) : s[j] \in SpaceChars /\ s[j + 1] \in SpaceChars}
    IN  IF hits = {} THEN SubSeq(s, i, Len(s))
        ELSE LET j == CHOOSE j \in hits : \A h \in hits : j <= h
             IN  SubSeq(s, i, j - 1) \o <<" ">>
                     \o CollapseSpacesFrom(s, RunEnd(s, j, SpaceChars) + 1)

(***************************************************************************)
(* Content normalizer (the same two functions in both components)          *)
(***************************************************************************)
\* (changed) an opening "<" that is never closed swallows the rest
RECURSIVE StripFromConsuming(_, _)
StripFromConsuming(s, i) ==
    LET hits == {j \in i..Len(s) : s[j] = "<"}
    IN  IF hits = {} THEN SubSeq(s, i, Len(s))
        ELSE LET j == CHOOSE j \in hits : \A h \in hits : j <= h
                 ends == {k \in (j + 1)..Len(s) : s[k] = ">"}
             IN  IF ends = {} THEN SubSeq(s, i, j - 1)
                 ELSE SubSeq(s, i, j - 1)
                          \o StripFromConsuming(s, (CHOOSE k \in ends : \A h \in ends : k <= h) + 1)

\* html.replace(/<[^>]*>/g, ""): a "<" with a later ">" is removed up to the
\* first such ">"; a "<" with no later ">" does not match; the text between
\* two matches is copied
RECURSIVE StripFrom(_, _)
StripFrom(s, i) ==
    LET hits == {j \in i..Len(s) : s[j] = "<" /\ \E k \in (j + 1)..Len(s) : s[k] = ">"}
    IN  IF hits = {} THEN SubSeq(s, i, Len(s))
        ELSE LET j == CHOOSE j \in hits : \A h \in hits : j <= h
                 ends == {k \in (j + 1)..Len(s) : s[k] = ">"}
             IN  SubSeq(s, i, j - 1)
                     \o StripFrom(s, (CHOOSE k \in ends : \A h \in ends : k <= h) + 1)

stripHtmlTags(html) ==
    IF html = <<>> THEN <<>> ELSE StripFrom(html, 1)

\* (changed) white space is collapsed before the entities are decoded
decodeHtmlEntitiesCollapseFirst(text) ==
    IF text = <<>> THEN <<>>
    ELSE LET t0 == CollapseSpacesFrom(text, 1)
             t1 == ReplaceAll(t0, << <<"&", "n", "b", "s", "p", ";">>,
                                       <<"&", "#", "1", "6", "0", ";">> >>, <<" ">>)
             t2 == ReplaceAll(t1, << <<"&", "a", "m", "p", ";">> >>, <<"&">>)
             t3 == ReplaceAll(t2, << <<"&", "l", "t", ";">> >>, <<"<">>)
             t4 == ReplaceAll(t3, << <<"&", "g", "t", ";">> >>, <<">">>)
             t5 == ReplaceAll(t4, << <<"&", "q", "u", "o", "t", ";">> >>, <<"\"">>)
             t6 == ReplaceAll(t5, << <<"&", "#", "3", "9", ";">> >>, <<"'">>)
             t7 == ReplaceNumericFrom(t6, 1, <<"&", "#">>, DigitChars, 10)
             t8 == ReplaceNumericFrom(t7, 1, <<"&", "#", "x">>, HexDigitChars, 16)
         IN  Trim(t8)

decodeHtmlEntities(text) ==
    IF text = <<>> THEN <<>>
    ELSE LET t1 == ReplaceAll(text, << <<"&", "n", "b", "s", "p", ";">>,
                                       <<"&", "#", "1", "6", "0", ";">> >>, <<" ">>)
             t2 == ReplaceAll(t1, << <<"&", "a", "m", "p", ";">> >>, <<"&">>)
             t3 == ReplaceAll(t2, << <<"&", "l", "t", ";">> >>, <<"<">>)
             t4 == ReplaceAll(t3, << <<"&", "g", "t", ";">> >>, <<">">>)
             t5 == ReplaceAll(t4, << <<"&", "q", "u", "o", "t", ";">> >>, <<"\"">>)
             t6 == ReplaceAll(t5, << <<"&", "#", "3", "9", ";">> >>, <<"'">>)
             t7 == ReplaceNumericFrom(t6, 1, <<"&", "#">>, DigitChars, 10)
             t8 == ReplaceNumericFrom(t7, 1, <<"&", "#", "x">>, HexDigitChars, 16)
         IN  Trim(CollapseSpacesFrom(t8, 1))

\* the text shown for a message body
normalize(content) == decodeHtmlEntities(stripHtmlTags(content))

(***************************************************************************)
(* Ordering                                                                *)
(***************************************************************************)
\* insert x into the sorted sequence s behind every element that the
\* comparator (a, b) => sign * (a.date - b.date) does not order after it
RECURSIVE InsertByDate(_, _, _)
InsertByDate(s, x, sign) ==
    IF s = <<>> THEN <<x>>
    ELSE IF sign * (Head(s).date - x.date) > 0
         THEN <<x>> \o s
         ELSE <<Head(s)>> \o InsertByDate(Tail(s), x, sign)

\* [...s].sort((a, b) => sign * (date(a) - date(b))): Array.prototype.sort
\* is stable, and the copy leaves s itself as it is
RECURSIVE SortByDate(_, _)
SortByDate(s, sign) ==
    IF s = <<>> THEN <<>>
    ELSE InsertByDate(SortByDate(SubSeq(s, 1, Len(s) - 1), sign), s[Len(s)], sign)

(***************************************************************************)
(* The data the providers hold                                             *)
(***************************************************************************)
chatA == [id |-> "A", creator |-> "Alice", createdByAccount |-> TRUE,
          date |-> 2, ref |-> "refA"]

chatB == [id |-> "B", creator |-> "Bob", createdByAccount |-> FALSE,
          date |-> 1, ref |-> "refB"]

\* a conversation with the timestamp of chatB
chatC == [id |-> "C", creator |-> "Carol", createdByAccount |-> FALSE,
          date |-> 1, ref |-> "refC"]

\* the conversation of chatA as a second adapter reports it
chatA2 == [id |-> "A", creator |-> "Alice", createdByAccount |-> TRUE,
           date |-> 2, ref |-> "refA2"]

\* what the adapters can report together: at most n conversations, in any
\* order, the same identifier possibly more than once
RECURSIVE ReportedLists(_)
ReportedLists(n) ==
    IF n = 0 THEN {<<>>}
    ELSE LET shorter == ReportedLists(n - 1)
         IN  shorter \cup {Append(l, c) : l \in shorter, c \in {chatA, chatB, chatC, chatA2}}

\* (changed) the manager hands on what the adapters report as it is
MergedChatsAll(reported) == reported

\* manager.getChats: the adapters' conversations concatenated and
\* de-duplicated by identifier, the first seen wins
RECURSIVE MergedChats(_)
MergedChats(reported) ==
    IF reported = <<>> THEN <<>>
    ELSE LET front == MergedChats(SubSeq(reported, 1, Len(reported) - 1))
             last == reported[Len(reported)]
         IN  IF \E k \in 1..Len(front) : front[k].id = last.id
             THEN front
             ELSE Append(front, last)


\* the conversation lists getChats can report
ChatLists == {<<chatB, chatA>>, <<chatB>>}

ChatIds == {"A", "B", "C"}

\* the messages of the conversations before any send, newest first
InitialMessages ==
    [c \in ChatIds |->
        << [id |-> 1, author |-> "Bob", date |-> 2,
            content |-> <<"<", "b", ">", "a", " ", "&", "a", "m", "p", ";">>],
           [id |-> 2, author |-> "Alice", date |-> 1,
            content |-> IF c = "A" THEN <<"<", "i", ">", "a">> ELSE <<"b", " ">>] >>]

\* the pieces message bodies are made of: entities, tag delimiters, a
\* word, white space, and the parts of numeric references
Fragments ==
    { <<"&", "l", "t", ";">>, <<"&", "g", "t", ";">>, <<"&", "a", "m", "p", ";">>,
      <<"<">>, <<">">>, <<"b", " ">>, <<" ">>, <<"&", "n", "b", "s", "p", ";">>,
      <<"&", "#", "x">>, <<"Z", "Z", ";">>, <<"3", "c", ";">> }

\* the message bodies of at most n fragments
RECURSIVE BodiesOf(_)
BodiesOf(n) ==
    IF n = 0 THEN {<<>>}
    ELSE LET shorter == BodiesOf(n - 1)
         IN  shorter \cup {b \o f : b \in shorter, f \in Fragments}

\* truncateString(preview, 100)
PreviewLimit == 100

\* message bodies around the preview limit
LongBodies ==
    {[i \in 1..n |-> "b"] : n \in {PreviewLimit, PreviewLimit + 1, PreviewLimit + 50}}

\* the texts the user can type into the reply field: empty, white space
\* only, and a word padded with white space
Texts == {<<>>, <<" ">>, <<" ", "a", " ">>}

\* the display name under which the provider files a message sent by the
\* local account
LocalAuthor(c) ==
    IF c.createdByAccount THEN c.creator
    ELSE IF c.creator = "Alice" THEN "Bob" ELSE "Alice"

(***************************************************************************)
(* State                                                                   *)
(***************************************************************************)
VARIABLES
    \* ChatsView
    chats,              \* useState<Chat[]>([])
    listLoading,        \* ChatsView's loading
    isManuallyLoading,
    chatPreviews,       \* Record<string, string>: conversation id -> preview
    fetchChatsTasks,    \* position of every fetchChats invocation, in order
    \* navigation
    route,              \* <<>> or <<chatData>>: the params of the pushed modal
    \* ChatModal
    chat,               \* <<>> (null) or <<the resolved conversation>>
    messages,
    loading,
    text,
    canReply,
    fetchMessagesPc,    \* position of the fetchMessages invocation
    sendTasks,          \* position and closure of every send that passed
                        \* its guard, in order
    \* the manager and the providers behind it
    calls,              \* the manager calls made and not yet consumed
    srvChats,           \* the conversations the providers report now
    srvMessages,        \* conversation id -> the messages the provider holds
    \* observation
    event,              \* the handler or continuation that ran last
    shownAfter,         \* the sends that had completed when the call whose
                        \* result is displayed in messages was issued
    capabilityContext   \* <<>> or <<the context flag of the capability query
                        \* the thread has made>>

listVars == <<chats, listLoading, isManuallyLoading, chatPreviews, fetchChatsTasks>>

modalVars == <<chat, messages, loading, text, canReply, fetchMessagesPc, sendTasks>>

envVars == <<srvChats, srvMessages>>

vars == <<listVars, route, modalVars, calls, envVars, event, shownAfter, capabilityContext>>

\* a manager call; st is "pending" until the manager has answered
Call(task, n, i, method, c, txt, after) ==
    [task |-> task, n |-> n, i |-> i, method |-> method, chat |-> c,
     text |-> txt, st |-> "pending", chatsRes |-> <<>>, msgsRes |-> <<>>,
     after |-> after]

\* the answered call a continuation is waiting for
Answered(task, n, i) ==
    {c \in calls : c.task = task /\ c.n = n /\ c.i = i /\ c.st # "pending"}

\* the sends whose sendMessageInChat has returned successfully
CompletedSends ==
    {n \in 1..Len(sendTasks) : sendTasks[n].pc \in {"getChatMessages", "done", "refetchFailed"}}

Init ==
    /\ chats = <<>>
    /\ listLoading = FALSE
    /\ isManuallyLoading = FALSE
    /\ chatPreviews = <<>>
    /\ fetchChatsTasks = <<>>
    /\ route = <<>>
    /\ chat = <<>>
    /\ messages = <<>>
    /\ loading = FALSE
    /\ text = <<>>
    /\ canReply = FALSE
    /\ fetchMessagesPc = "idle"
    /\ sendTasks = <<>>
    /\ calls = {}
    /\ srvChats \in ChatLists
    /\ srvMessages = InitialMessages
    /\ event = "init"
    /\ shownAfter = {}
    /\ capabilityContext = <<>>

(***************************************************************************)
(* ChatsView                                                               *)
(***************************************************************************)
\* fetchChats up to its await: setLoading(true) and the getChats call
fetchChatsStart ==
    /\ listLoading' = TRUE
    /\ fetchChatsTasks' = Append(fetchChatsTasks, "getChats")
    /\ calls' = calls \cup {Call("fetchChats", Len(fetchChatsTasks) + 1, 0, "getChats", <<>>, <<>>, {})}

\* useEffect(() => { fetchChats(); }, []): runs once, when the list mounts
ChatsViewMount ==
    /\ fetchChatsTasks = <<>>
    /\ fetchChatsStart
    /\ event' = "ChatsViewMount"
    /\ UNCHANGED <<chats, isManuallyLoading, chatPreviews, route, modalVars, envVars, shownAfter, capabilityContext>>

\* RefreshControl.onRefresh
onRefresh ==
    /\ fetchChatsTasks # <<>>
    /\ Len(fetchChatsTasks) < 1 + MaxRefresh
    /\ isManuallyLoading' = TRUE
    /\ fetchChatsStart
    /\ event' = "onRefresh"
    /\ UNCHANGED <<chats, chatPreviews, route, modalVars, envVars, shownAfter, capabilityContext>>

\* the getChatMessages calls that fetched.forEach(fetchChatPreview) makes:
\* each fetchChatPreview runs up to its await
PreviewCalls(n, fetched) ==
    {Call("preview", n, i, "getChatMessages", <<fetched[i]>>, <<>>, {}) : i \in 1..Len(fetched)}

\* (changed) the fetched conversations are patched into the held list
ChatsAfterFetchMerged(old, c) ==
    IF c.st = "null" THEN old
    ELSE old \o SelectSeq(c.chatsRes, LAMBDA x : \A k \in 1..Len(old) : old[k].id # x.id)

\* setChats(fetched ?? [])
ChatsAfterFetch(old, c) ==
    IF c.st = "null" THEN <<>> ELSE c.chatsRes

\* (changed) the pull-to-refresh flag is not reset
FlagsAfterFetchChatsLoadingOnly ==
    /\ listLoading' = FALSE
    /\ UNCHANGED isManuallyLoading

\* the finally block of fetchChats
FlagsAfterFetchChats ==
    /\ listLoading' = FALSE
    /\ isManuallyLoading' = FALSE

\* fetchChats from the await of getChats to its end
fetchChatsResume(n) ==
    \E c \in Answered("fetchChats", n, 0) :
        /\ IF c.st = "err"
           THEN /\ fetchChatsTasks' = [fetchChatsTasks EXCEPT ![n] = "failed"]
                /\ calls' = calls \ {c}
                /\ UNCHANGED chats
           ELSE /\ chats' = ChatsAfterFetch(chats, c)
                /\ fetchChatsTasks' = [fetchChatsTasks EXCEPT ![n] = "done"]
                /\ calls' = (calls \ {c}) \cup
                             (IF c.st = "null" THEN {} ELSE PreviewCalls(n, c.chatsRes))
        /\ FlagsAfterFetchChats
        /\ event' = "fetchChatsResume"
        /\ UNCHANGED <<chatPreviews, route, modalVars, envVars, shownAfter, capabilityContext>>

\* (changed) the previews of the first render are spread instead of prev
PreviewsAfterFetchStale(prev, id, cleaned) ==
    (id :> cleaned)

\* setChatPreviews(prev => ({ ...prev, [chat.id]: cleaned }))
PreviewsAfterFetch(prev, id, cleaned) ==
    (id :> cleaned) @@ prev

\* (changed) a conversation whose preview fetch failed is dropped
ChatsAfterPreviewDropped(old, c) ==
    IF c.st = "err" THEN SelectSeq(old, LAMBDA x : x.id # c.chat[1].id) ELSE old

\* the held conversations when fetchChatPreview ends: it has no setChats,
\* and its catch block is empty
ChatsAfterPreview(old, c) == old

\* fetchChatPreview from the await of getChatMessages to its end
fetchChatPreviewResume(n, i) ==
    \E c \in Answered("preview", n, i) :
        /\ IF c.st = "ok" /\ Len(c.msgsRes) > 0
           THEN LET lastMessage == c.msgsRes[Len(c.msgsRes)]
                    cleaned == decodeHtmlEntities(stripHtmlTags(lastMessage.content))
                IN  chatPreviews' = PreviewsAfterFetch(chatPreviews, c.chat[1].id, cleaned)
           ELSE UNCHANGED chatPreviews
        /\ chats' = ChatsAfterPreview(chats, c)
        /\ calls' = calls \ {c}
        /\ event' = "fetchChatPreviewResume"
        /\ UNCHANGED <<listLoading, isManuallyLoading, fetchChatsTasks, route,
                       modalVars, envVars, shownAfter, capabilityContext>>

\* (changed) the list is sorted oldest first
sortedChatsAscending == SortByDate(chats, 1)

\* useMemo: [...chats].sort((a, b) => date(b) - date(a))
sortedChats == SortByDate(chats, -1)

\* useMemo: the search field is left empty
filteredChats == sortedChats

\* (changed) a string of exactly maxLength characters is cut as well
truncateStringStrict(str, maxLength) ==
    IF Len(str) < maxLength THEN str
    ELSE SubSeq(str, 1, maxLength) \o <<".", ".", ".">>

\* ChatItem.truncateString
truncateString(str, maxLength) ==
    IF Len(str) <= maxLength THEN str
    ELSE SubSeq(str, 1, maxLength) \o <<".", ".", ".">>

\* the second line of a row of the list:
\* preview ? truncateString(preview, 100) : (chat.creator || "");
\* the creator's name is a single token
rowText(item) ==
    IF item.id \in DOMAIN chatPreviews /\ chatPreviews[item.id] # <<>>
    THEN truncateString(chatPreviews[item.id], PreviewLimit)
    ELSE <<item.creator>>

\* the object openChat builds: the conversation without its ref
ChatData(item) ==
    [id |-> item.id, creator |-> item.creator, date |-> item.date,
     createdByAccount |-> item.createdByAccount]

\* openChat(item) from a row of the list: nav.push of the modal with the
\* serialized chatData as its params
openChat(k) ==
    /\ route = <<>>
    /\ k \in 1..Len(filteredChats)
    /\ route' = <<ChatData(filteredChats[k])>>
    /\ event' = "openChat"
    /\ UNCHANGED <<listVars, modalVars, calls, envVars, shownAfter, capabilityContext>>

(***************************************************************************)
(* ChatModal                                                               *)
(***************************************************************************)
\* JSON.parse(String(search.chat))
chatParams == route[1]

\* the flag of the first thread component (the bubbles' side)
isOutgoing(params, m) ==
    ~(IF params.createdByAccount
      THEN m.author = params.creator
      ELSE m.author # params.creator)

\* the flag of the second thread component
isOutgoingPlain(params, m) == params.creator = m.author

\* what the first thread component renders: the messages oldest first
renderedMessages == SortByDate(messages, 1)

\* what the second thread component renders: messages.map, the held order
renderedMessagesPlain == messages

\* (changed) the conversation is rebuilt from the fields of the params
FindChatStripped(c, id) ==
    IF c.st = "ok" /\ \E k \in 1..Len(c.chatsRes) : c.chatsRes[k].id = id
    THEN LET k == CHOOSE k \in 1..Len(c.chatsRes) :
                      /\ c.chatsRes[k].id = id
                      /\ \A j \in 1..(k - 1) : c.chatsRes[j].id # id
         IN  <<ChatData(c.chatsRes[k])>>
    ELSE <<>>

\* chats?.find(c => c.id === chatParams.id): <<>> when nothing is found
FindChat(c, id) ==
    IF c.st = "ok" /\ \E k \in 1..Len(c.chatsRes) : c.chatsRes[k].id = id
    THEN LET k == CHOOSE k \in 1..Len(c.chatsRes) :
                      /\ c.chatsRes[k].id = id
                      /\ \A j \in 1..(k - 1) : c.chatsRes[j].id # id
         IN  <<c.chatsRes[k]>>
    ELSE <<>>

\* useEffect(() => { fetchMessages(); }, []): runs once, when the modal
\* mounts; fetchMessages up to the await of getChats
ChatModalMount ==
    /\ route # <<>>
    /\ fetchMessagesPc = "idle"
    /\ loading' = TRUE
    /\ fetchMessagesPc' = "getChats"
    /\ calls' = calls \cup {Call("fetchMessages", 1, 0, "getChats", <<>>, <<>>, {})}
    /\ event' = "ChatModalMount"
    /\ UNCHANGED <<listVars, route, chat, messages, text, canReply, sendTasks, envVars, shownAfter, capabilityContext>>

\* fetchMessages from the await of getChats to the await of getChatMessages,
\* or to its end when the conversation is not found or the call failed
fetchMessagesAfterGetChats ==
    /\ fetchMessagesPc = "getChats"
    /\ \E c \in Answered("fetchMessages", 1, 0) :
        LET fullChat == FindChat(c, chatParams.id)
        IN  /\ IF c.st = "err"
               THEN /\ fetchMessagesPc' = "failed"
                    /\ loading' = FALSE
                    /\ calls' = calls \ {c}
                    /\ UNCHANGED chat
               ELSE IF fullChat # <<>>
               THEN /\ chat' = fullChat
                    /\ fetchMessagesPc' = "getChatMessages"
                    /\ calls' = (calls \ {c}) \cup
                                 {Call("fetchMessages", 1, 1, "getChatMessages", fullChat, <<>>, {})}
                    /\ UNCHANGED loading
               ELSE /\ fetchMessagesPc' = "done"
                    /\ loading' = FALSE
                    /\ calls' = calls \ {c}
                    /\ UNCHANGED chat
            /\ event' = "fetchMessagesAfterGetChats"
            /\ UNCHANGED <<listVars, route, messages, text, canReply, sendTasks, envVars, shownAfter, capabilityContext>>

\* (changed) the query is made with a constant context
CapabilityContextConstant(fullChat) == TRUE

\* the second argument of clientHasCapatibility: fullChat.createdByAccount
CapabilityContext(fullChat) == fullChat.createdByAccount

\* manager.clientHasCapatibility(Capabilities.CHAT_REPLY, createdByAccount):
\* the answers a provider can give for the flag, or the call throws
CapabilityAnswers(createdByAccount) == {"true", "false", "throws"}

\* fetchMessages from the await of getChatMessages to its end
fetchMessagesAfterGetChatMessages ==
    /\ fetchMessagesPc = "getChatMessages"
    /\ \E c \in Answered("fetchMessages", 1, 1) :
        /\ IF c.st = "err"
           THEN /\ fetchMessagesPc' = "failed"
                /\ UNCHANGED <<messages, canReply, shownAfter, capabilityContext>>
           ELSE /\ messages' = (IF c.st = "null" THEN <<>> ELSE c.msgsRes)
                /\ shownAfter' = c.after
                /\ capabilityContext' = <<CapabilityContext(chat[1])>>
                /\ \E reply \in CapabilityAnswers(CapabilityContext(chat[1])) :
                       IF reply = "throws"
                       THEN /\ fetchMessagesPc' = "failed"
                            /\ UNCHANGED canReply
                       ELSE /\ fetchMessagesPc' = "done"
                            /\ canReply' = (reply = "true")
        /\ loading' = FALSE
        /\ calls' = calls \ {c}
        /\ event' = "fetchMessagesAfterGetChatMessages"
        /\ UNCHANGED <<listVars, route, chat, text, sendTasks, envVars>>

\* (changed) the reply field is rendered whatever canReply is
InputShownAlways == TRUE

\* {canReply ? (<TextInput ... /> <Pressable onPress={send} ... />) : ...}:
\* the reply field is rendered only when canReply holds
InputShown == canReply

\* TextInput.onChangeText = setText
onChangeText(s) ==
    /\ route # <<>>
    /\ InputShown
    /\ s # text
    /\ text' = s
    /\ event' = "onChangeText"
    /\ UNCHANGED <<listVars, route, chat, messages, loading, canReply, fetchMessagesPc,
                   sendTasks, calls, envVars, shownAfter, capabilityContext>>

\* (changed) the text is tested without trim
sendRejectsUntrimmed(ch, txt) == ch = <<>> \/ txt = <<>>

\* if (!chat || !text.trim()) return;
sendRejects(ch, txt) == ch = <<>> \/ Trim(txt) = <<>>

\* (changed) the re-fetch is fired together with the send
SendFirstCallsBoth(n, ch, txt) ==
    {Call("send", n, 0, "sendMessageInChat", ch, Trim(txt), {}),
     Call("send", n, 1, "getChatMessages", ch, <<>>, {})}

\* the manager calls send makes before its first await
SendFirstCalls(n, ch, txt) ==
    {Call("send", n, 0, "sendMessageInChat", ch, Trim(txt), {})}

\* (changed) the message is appended to the list before it is sent
MessagesOnSendOptimistic(msgs, ch, txt) ==
    Append(msgs, [id |-> Len(msgs) + 1, author |-> LocalAuthor(ch[1]),
                  date |-> Len(msgs) + 1, content |-> Trim(txt)])

\* the messages as send itself leaves them before its first await (send
\* has no setMessages there)
MessagesOnSend(msgs, ch, txt) == msgs

\* send up to the await of sendMessageInChat.  The button that calls it is
\* rendered with the reply field and disabled on a blank text; send is
\* taken here in every state of the mounted modal, which includes those.
send ==
    /\ route # <<>>
    /\ event' = "send"
    /\ IF sendRejects(chat, text)
       THEN UNCHANGED <<loading, sendTasks, calls, messages>>
       ELSE /\ Len(sendTasks) < MaxSends
            /\ loading' = TRUE
            /\ sendTasks' = Append(sendTasks, [pc |-> "sendMessageInChat", chat |-> chat])
            /\ calls' = calls \cup SendFirstCalls(Len(sendTasks) + 1, chat, text)
            /\ messages' = MessagesOnSend(messages, chat, text)
    /\ UNCHANGED <<listVars, route, chat, text, canReply, fetchMessagesPc, envVars, shownAfter, capabilityContext>>

\* (changed) a failed call of send takes the reply field away
CanReplyAfterSendReset(old, c) == old /\ c.st # "err"

\* canReply when a continuation of send has run: send has no setCanReply
CanReplyAfterSend(old, c) == old

\* (changed) loading is reset on the success path only
LoadingAfterSendNoFinally(old, c) == IF c.st = "err" THEN old ELSE FALSE

\* loading when send has ended: finally { setLoading(false) }
LoadingAfterSend(old, c) == FALSE

\* (changed) the text is cleared whatever the outcome
TextAfterFailedSendCleared(txt) == <<>>

\* the input text when the catch and finally blocks of send have run
TextAfterFailedSend(txt) == txt

\* send from the await of sendMessageInChat to the await of
\* getChatMessages, or to its end when the call failed
sendAfterSendMessage(n) ==
    /\ n \in 1..Len(sendTasks)
    /\ sendTasks[n].pc = "sendMessageInChat"
    /\ \E c \in Answered("send", n, 0) :
        /\ IF c.st = "err"
           THEN /\ sendTasks' = [sendTasks EXCEPT ![n].pc = "sendFailed"]
                /\ text' = TextAfterFailedSend(text)
                /\ loading' = LoadingAfterSend(loading, c)
                /\ calls' = calls \ {c}
           ELSE /\ sendTasks' = [sendTasks EXCEPT ![n].pc = "getChatMessages"]
                /\ text' = <<>>
                /\ calls' = (calls \ {c}) \cup
                             {Call("send", n, 1, "getChatMessages", sendTasks[n].chat, <<>>,
                                   CompletedSends \cup {n})}
                /\ UNCHANGED loading
        /\ canReply' = CanReplyAfterSend(canReply, c)
        /\ event' = "sendAfterSendMessage"
        /\ UNCHANGED <<listVars, route, chat, messages, fetchMessagesPc, envVars,
                       shownAfter, capabilityContext>>

\* send from the await of getChatMessages to its end
sendAfterGetChatMessages(n) ==
    /\ n \in 1..Len(sendTasks)
    /\ sendTasks[n].pc = "getChatMessages"
    /\ \E c \in Answered("send", n, 1) :
        /\ IF c.st = "err"
           THEN /\ sendTasks' = [sendTasks EXCEPT ![n].pc = "refetchFailed"]
                /\ UNCHANGED <<messages, shownAfter>>
           ELSE /\ sendTasks' = [sendTasks EXCEPT ![n].pc = "done"]
                /\ messages' = (IF c.st = "null" THEN <<>> ELSE c.msgsRes)
                /\ shownAfter' = c.after
        /\ loading' = LoadingAfterSend(loading, c)
        /\ canReply' = CanReplyAfterSend(canReply, c)
        /\ calls' = calls \ {c}
        /\ event' = "sendAfterGetChatMessages"
        /\ UNCHANGED <<listVars, route, chat, text, fetchMessagesPc, envVars,
                       capabilityContext>>

(***************************************************************************)
(* The manager and the providers                                           *)
(***************************************************************************)
\* the message the provider files for a send
SentMessage(c) ==
    LET held == srvMessages[c.chat[1].id]
    IN  [id |-> Len(held) + 1, author |-> LocalAuthor(c.chat[1]),
         date |-> Len(held) + 1, content |-> c.text]

\* the manager answers a pending call: with the providers' data as it is
\* now, with nothing, or with an error
ManagerRespond(c) ==
    /\ c \in calls
    /\ c.st = "pending"
    /\ \/ /\ c.method = "getChats"
          /\ \E r \in {[c EXCEPT !.st = "ok", !.chatsRes = MergedChats(srvChats)],
                        [c EXCEPT !.st = "null"], [c EXCEPT !.st = "err"]} :
                 calls' = (calls \ {c}) \cup {r}
          /\ UNCHANGED srvMessages
       \/ /\ c.method = "getChatMessages"
          /\ \E r \in {[c EXCEPT !.st = "ok", !.msgsRes = srvMessages[c.chat[1].id]],
                        [c EXCEPT !.st = "null"], [c EXCEPT !.st = "err"]} :
                 calls' = (calls \ {c}) \cup {r}
          /\ UNCHANGED srvMessages
       \/ /\ c.method = "sendMessageInChat"
          /\ \/ /\ calls' = (calls \ {c}) \cup {[c EXCEPT !.st = "ok"]}
                /\ srvMessages' = [srvMessages EXCEPT ![c.chat[1].id] = Append(@, SentMessage(c))]
             \/ /\ calls' = (calls \ {c}) \cup {[c EXCEPT !.st = "err"]}
                /\ UNCHANGED srvMessages
    /\ event' = "ManagerRespond"
    /\ UNCHANGED <<listVars, route, modalVars, srvChats, shownAfter, capabilityContext>>

\* the providers start to report another conversation list
ProviderUpdate ==
    /\ \E l \in ChatLists \ {srvChats} : srvChats' = l
    /\ event' = "ProviderUpdate"
    /\ UNCHANGED <<listVars, route, modalVars, calls, srvMessages, shownAfter, capabilityContext>>

(***************************************************************************)
(* Specification                                                           *)
(***************************************************************************)
\* the list screen, from its construction
NextList ==
    \/ ChatsViewMount
    \/ onRefresh
    \/ \E n \in 1..Len(fetchChatsTasks) : fetchChatsResume(n)
    \/ \E c \in calls : c.task = "preview" /\ fetchChatPreviewResume(c.n, c.i)
    \/ \E k \in 1..Len(filteredChats) : openChat(k)
    \/ \E c \in calls : ManagerRespond(c)
    \/ ProviderUpdate

SpecList == Init /\ [][NextList]_vars

\* the state in which the modal is constructed: the list has fetched the
\* conversations l, its preview fetches have ended without a result, and
\* the row k has been opened
InitModal ==
    /\ \E l \in ChatLists :
           /\ chats = l
           /\ \E k \in 1..Len(l) : route = <<ChatData(SortByDate(l, -1)[k])>>
    /\ listLoading = FALSE
    /\ isManuallyLoading = FALSE
    /\ chatPreviews = <<>>
    /\ fetchChatsTasks = <<"done">>
    /\ chat = <<>>
    /\ messages = <<>>
    /\ loading = FALSE
    /\ text = <<>>
    /\ canReply = FALSE
    /\ fetchMessagesPc = "idle"
    /\ sendTasks = <<>>
    /\ calls = {}
    /\ srvChats \in ChatLists
    /\ srvMessages = InitialMessages
    /\ event = "openChat"
    /\ shownAfter = {}
    /\ capabilityContext = <<>>

\* the thread screen, from its construction
NextModal ==
    \/ ChatModalMount
    \/ fetchMessagesAfterGetChats
    \/ fetchMessagesAfterGetChatMessages
    \/ \E s \in Texts : onChangeText(s)
    \/ send
    \/ \E n \in 1..Len(sendTasks) : sendAfterSendMessage(n)
    \/ \E n \in 1..Len(sendTasks) : sendAfterGetChatMessages(n)
    \/ \E c \in calls : ManagerRespond(c)
    \/ ProviderUpdate

SpecModal == InitModal /\ [][NextModal]_vars

\* the state in which the modal is constructed while the preview fetches
\* of the list are still in flight: the list has fetched the conversations
\* l, the providers still report them, and the row k has been opened
InitOpen ==
    /\ \E l \in ChatLists :
           /\ chats = l
           /\ srvChats = l
           /\ calls = PreviewCalls(1, l)
           /\ \E k \in 1..Len(l) : route = <<ChatData(SortByDate(l, -1)[k])>>
    /\ listLoading = FALSE
    /\ isManuallyLoading = FALSE
    /\ chatPreviews = <<>>
    /\ fetchChatsTasks = <<"done">>
    /\ chat = <<>>
    /\ messages = <<>>
    /\ loading = FALSE
    /\ text = <<>>
    /\ canReply = FALSE
    /\ fetchMessagesPc = "idle"
    /\ sendTasks = <<>>
    /\ srvMessages = InitialMessages
    /\ event = "openChat"
    /\ shownAfter = {}
    /\ capabilityContext = <<>>

\* the thread screen over the list screen that is still fetching previews
NextOpen ==
    \/ \E c \in calls : c.task = "preview" /\ fetchChatPreviewResume(c.n, c.i)
    \/ ChatModalMount
    \/ fetchMessagesAfterGetChats
    \/ fetchMessagesAfterGetChatMessages
    \/ \E s \in Texts : onChangeText(s)
    \/ Len(sendTasks) < MaxOpenSends /\ send
    \/ \E n \in 1..Len(sendTasks) : sendAfterSendMessage(n)
    \/ \E n \in 1..Len(sendTasks) : sendAfterGetChatMessages(n)
    \/ \E c \in calls : ManagerRespond(c)

SpecOpen == InitOpen /\ [][NextOpen]_vars

\* the list screen shown once: no pull-to-refresh, no row opened, and the
\* providers' data stays as it is
NextOnce ==
    \/ ChatsViewMount
    \/ \E n \in 1..Len(fetchChatsTasks) : fetchChatsResume(n)
    \/ \E c \in calls : c.task = "preview" /\ fetchChatPreviewResume(c.n, c.i)
    \/ \E c \in calls : ManagerRespond(c)

\* the list screen is constructed while the providers hold one
\* conversation whose only message has the body x
InitContent ==
    /\ chats = <<>>
    /\ listLoading = FALSE
    /\ isManuallyLoading = FALSE
    /\ chatPreviews = <<>>
    /\ fetchChatsTasks = <<>>
    /\ route = <<>>
    /\ chat = <<>>
    /\ messages = <<>>
    /\ loading = FALSE
    /\ text = <<>>
    /\ canReply = FALSE
    /\ fetchMessagesPc = "idle"
    /\ sendTasks = <<>>
    /\ calls = {}
    /\ srvChats = <<chatB>>
    /\ \E x \in BodiesOf(MaxFragments) \cup LongBodies :
           srvMessages = [c \in ChatIds |->
                             <<[id |-> 1, author |-> "Bob", date |-> 1, content |-> x]>>]
    /\ event = "init"
    /\ shownAfter = {}
    /\ capabilityContext = <<>>

SpecContent == InitContent /\ [][NextOnce]_vars

\* the list screen is constructed while the adapters report any list of
\* conversations
InitOrder ==
    /\ chats = <<>>
    /\ listLoading = FALSE
    /\ isManuallyLoading = FALSE
    /\ chatPreviews = <<>>
    /\ fetchChatsTasks = <<>>
    /\ route = <<>>
    /\ chat = <<>>
    /\ messages = <<>>
    /\ loading = FALSE
    /\ text = <<>>
    /\ canReply = FALSE
    /\ fetchMessagesPc = "idle"
    /\ sendTasks = <<>>
    /\ calls = {}
    /\ srvChats \in ReportedLists(MaxChats)
    /\ srvMessages = InitialMessages
    /\ event = "init"
    /\ shownAfter = {}
    /\ capabilityContext = <<>>

SpecOrder == InitOrder /\ [][NextOnce]_vars

\* the two screens from their construction, each on its own: the list
\* screen with no row opened yet, or the thread screen over a list at rest
InitRest == Init \/ InitModal

\* the steps the program takes by itself and that the loading flags wait
\* for: the mount effects, the manager's answers and the continuations of
\* fetchChats, fetchMessages and send
SystemStep ==
    \/ ChatsViewMount
    \/ \E n \in 1..Len(fetchChatsTasks) : fetchChatsResume(n)
    \/ ChatModalMount
    \/ fetchMessagesAfterGetChats
    \/ fetchMessagesAfterGetChatMessages
    \/ \E n \in 1..Len(sendTasks) : sendAfterSendMessage(n)
    \/ \E n \in 1..Len(sendTasks) : sendAfterGetChatMessages(n)
    \/ \E c \in calls : ManagerRespond(c)

\* the steps the user takes: the list is pulled while it is the screen on
\* top, the reply field is edited, the send button is pressed
UserStep ==
    \/ route = <<>> /\ onRefresh
    \/ \E s \in Texts : onChangeText(s)
    \/ send

\* the continuation of a preview fetch: it is taken, but nothing waits for it
PreviewStep == \E c \in calls : c.task = "preview" /\ fetchChatPreviewResume(c.n, c.i)

NextRest == SystemStep \/ PreviewStep \/ UserStep

\* every manager call is answered, and the continuation of an answered call
\* of fetchChats, fetchMessages or send is run
SpecRest == InitRest /\ [][NextRest]_vars /\ WF_vars(SystemStep)

(***************************************************************************)
(* Properties                                                              *)
(***************************************************************************)
\* the identity of a manager call, whatever its answer
CallKey(c) == <<c.task, c.n, c.i, c.method>>

\* the calls issued by a step
IssuedCalls == {c \in calls' : \A d \in calls : CallKey(d) # CallKey(c)}

\* the answered calls consumed by a step
ConsumedCalls == {c \in calls : \A d \in calls' : CallKey(d) # CallKey(c)}

\* a string without a character other than white space
IsBlank(s) == \A k \in 1..Len(s) : s[k] \in SpaceChars

\* the directionality rule: the local account wrote the creator's messages
\* of a conversation it created, and the other messages of a conversation
\* it did not create
LocalByRule(params, m) ==
    \/ params.createdByAccount /\ m.author = params.creator
    \/ ~params.createdByAccount /\ m.author # params.creator

\* C1: every message of the thread is flagged outgoing exactly when the
\* directionality rule attributes it to the local account.
C1_OutgoingFollowsRule ==
    route # <<>> =>
        \A k \in 1..Len(renderedMessages) :
            isOutgoing(chatParams, renderedMessages[k])
                <=> LocalByRule(chatParams, renderedMessages[k])

\* C2: a send invoked while the text is empty or white space only, or while
\* no conversation is resolved, issues no manager call and leaves messages,
\* text and loading as they are.
C2_BlankSendIsNoOp ==
    [][(event' = "send" /\ (chat = <<>> \/ IsBlank(text)))
          => /\ IssuedCalls = {}
             /\ messages' = messages
             /\ text' = text
             /\ loading' = loading]_vars

\* C2 happens: send has run on a white-space-only text with the
\* conversation resolved and the reply field shown.
C2_Witness ==
    /\ event = "send"
    /\ chat # <<>>
    /\ canReply
    /\ text = <<" ">>

\* C3: a step issues sendMessageInChat only in a state where canReply holds
\* (and it still holds after the step).
C3_SendOnlyWhenCanReply ==
    [][\A c \in IssuedCalls : c.method = "sendMessageInChat" => canReply /\ canReply']_vars

\* C3 happens: the capability query was answered with false, send has run
\* on the resolved conversation, and no call was made.
C3_Witness ==
    /\ event = "send"
    /\ chat # <<>>
    /\ fetchMessagesPc = "done"
    /\ ~canReply
    /\ calls = {}

\* C4: the getChatMessages call of a send is issued by the step that
\* consumes the successful answer of that send's sendMessageInChat, and a
\* send never has two calls in flight.
C4_RefetchAfterOwnSend ==
    [][/\ \A c \in IssuedCalls :
              (c.task = "send" /\ c.method = "getChatMessages")
                  => \E d \in ConsumedCalls :
                         /\ d.task = "send"
                         /\ d.n = c.n
                         /\ d.method = "sendMessageInChat"
                         /\ d.st = "ok"
       /\ \A c, d \in calls' :
              (c.task = "send" /\ d.task = "send" /\ c.n = d.n) => CallKey(c) = CallKey(d)]_vars

\* C4 happens: one send has failed and issued nothing more, another one has
\* succeeded and its re-fetch is in flight.
C4_Witness ==
    /\ \E n \in 1..Len(sendTasks) :
           /\ sendTasks[n].pc = "sendFailed"
           /\ \A c \in calls : ~(c.task = "send" /\ c.n = n)
    /\ \E n \in 1..Len(sendTasks) :
           /\ sendTasks[n].pc = "getChatMessages"
           /\ \E c \in calls : c.task = "send" /\ c.n = n /\ c.method = "getChatMessages"

\* C5: once every send and every re-fetch has completed successfully, the
\* displayed messages are the result of a getChatMessages call that was
\* issued after the last successful send had completed.
C5_LatestRefetchShown ==
    (/\ Len(sendTasks) >= 2
     /\ \A n \in 1..Len(sendTasks) : sendTasks[n].pc = "done"
     /\ \A c \in calls : c.task # "send")
        => shownAfter = CompletedSends

\* C6: the displayed messages change only in a step that consumes a
\* successful getChatMessages answer of the thread, and then they are
\* exactly the sequence of that answer (empty when it carries none).
C6_NoOptimisticAppend ==
    [][messages' # messages
          => \E c \in ConsumedCalls :
                 /\ c.task \in {"fetchMessages", "send"}
                 /\ c.method = "getChatMessages"
                 /\ c.st \in {"ok", "null"}
                 /\ messages' = (IF c.st = "ok" THEN c.msgsRes ELSE <<>>)]_vars

\* C6 happens: a send and its re-fetch have succeeded and the sent message
\* is displayed.
C6_Witness ==
    /\ event = "sendAfterGetChatMessages"
    /\ \E n \in 1..Len(sendTasks) : sendTasks[n].pc = "done"
    /\ \E k \in 1..Len(messages) : messages[k].content = <<"a">>

C11_ListUntouched ==
    [][event' \in {"fetchChatPreviewResume", "ChatModalMount", "fetchMessagesAfterGetChats",
                   "fetchMessagesAfterGetChatMessages", "send", "sendAfterSendMessage",
                   "sendAfterGetChatMessages"}
          => chats' = chats]_vars

\* C11 happens: a preview fetch of the list has failed, and after it a send
\* of the thread has failed, while the list holds both conversations.
C11_Witness ==
    /\ event = "sendAfterSendMessage"
    /\ \E n \in 1..Len(sendTasks) : sendTasks[n].pc = "sendFailed"
    /\ \A c \in calls : c.task # "preview"
    /\ DOMAIN chatPreviews # {"A", "B"}
    /\ chats = <<chatB, chatA>>

\* C12: the capability query is made with the createdByAccount flag of the
\* resolved conversation, and when the query fails the thread goes on:
\* loading is reset, canReply is false and stays false, and the reply field
\* is not shown.
C12_FailedCapabilityIsFalse ==
    [][/\ capabilityContext' # capabilityContext
              => capabilityContext' = <<chat[1].createdByAccount>>
       /\ (capabilityContext' # capabilityContext /\ fetchMessagesPc' = "failed")
              => ~canReply' /\ ~loading'
       /\ (capabilityContext' # <<>> /\ fetchMessagesPc' = "failed")
              => ~canReply' /\ ~InputShown']_vars

\* C12 happens: the messages were fetched for a conversation the local
\* account did not create, and the capability query has just failed.
C12_Witness ==
    /\ event = "fetchMessagesAfterGetChatMessages"
    /\ fetchMessagesPc = "failed"
    /\ capabilityContext = <<FALSE>>
    /\ messages # <<>>
    /\ ~canReply

\* the preview calls a step consumes
ConsumedPreviews == {c \in ConsumedCalls : c.task = "preview"}

\* C8: the end of a preview fetch for one conversation, whatever its
\* outcome, leaves the stored preview of every other conversation as it is,
\* and a list refresh issues the preview call of every fetched conversation
\* at once, none waiting for another.
C8_PreviewsIndependent ==
    [][/\ \A c \in ConsumedPreviews :
              \A b \in ChatIds \ {c.chat[1].id} :
                  /\ (b \in DOMAIN chatPreviews) <=> (b \in DOMAIN chatPreviews')
                  /\ b \in DOMAIN chatPreviews => chatPreviews'[b] = chatPreviews[b]
       /\ \A c \in ConsumedCalls :
              (c.task = "fetchChats" /\ c.st = "ok")
                  => \A k \in 1..Len(c.chatsRes) :
                         \E d \in IssuedCalls :
                             /\ d.task = "preview"
                             /\ d.method = "getChatMessages"
                             /\ d.chat = <<c.chatsRes[k]>>]_vars

\* C8 happens: the preview of B is stored, and after it the preview fetch
\* of A of the same refresh has ended without a result.
C8_Witness ==
    /\ event = "fetchChatPreviewResume"
    /\ fetchChatsTasks = <<"done">>
    /\ chats = <<chatB, chatA>>
    /\ DOMAIN chatPreviews = {"B"}
    /\ calls = {}

\* C9: the step that ends a successful getChats of the list replaces the
\* held list by exactly the list returned (the empty list when the call
\* returned none).
C9_RefreshReplaces ==
    [][\A n \in 1..Len(fetchChatsTasks) :
          (fetchChatsTasks[n] = "getChats" /\ fetchChatsTasks'[n] = "done")
              => \E c \in ConsumedCalls :
                     /\ c.task = "fetchChats"
                     /\ c.n = n
                     /\ chats' = (IF c.st = "ok" THEN c.chatsRes ELSE <<>>)]_vars

\* C9 happens: conversation A was listed (its preview was stored) and a
\* later refresh that no longer reports it has removed it from the list.
C9_Witness ==
    /\ event = "fetchChatsResume"
    /\ "A" \in DOMAIN chatPreviews
    /\ chats = <<chatB>>

\* C10: the step that ends a failed getChats of the list leaves the held
\* list as it is and sets loading and isManuallyLoading to false.
C10_FailedRefreshKeepsList ==
    [][\A n \in 1..Len(fetchChatsTasks) :
          (fetchChatsTasks[n] = "getChats" /\ fetchChatsTasks'[n] = "failed")
              => /\ chats' = chats
                 /\ listLoading' = FALSE
                 /\ isManuallyLoading' = FALSE]_vars

\* C10 happens: a pull-to-refresh has failed while a list was held.
C10_Witness ==
    /\ event = "fetchChatsResume"
    /\ fetchChatsTasks = <<"done", "failed">>
    /\ chats # <<>>
    /\ ~listLoading
    /\ ~isManuallyLoading

(***************************************************************************)
(* The content normalizer, under SpecContent: the preview stored for a     *)
(* conversation is the normalizer applied to the body of its last message. *)
(***************************************************************************)

\* the body the stored preview of conversation id was computed from
Body(id) == srvMessages[id][Len(srvMessages[id])].content

\* does the literal pat occur in s
Occurs(pat, s) == \E i \in 1..Len(s) : MatchAt(s, i, pat)

MalformedReference == <<"&", "#", "x", "Z", "Z", ";">>

\* C14: a numeric reference whose digits cannot be parsed is decoded to the
\* empty string: a body that is just that reference gives an empty preview,
\* and no stored preview contains the raw reference.
C14_MalformedReferenceDropped ==
    \A id \in DOMAIN chatPreviews :
        /\ Body(id) = MalformedReference => chatPreviews[id] = <<>>
        /\ ~Occurs(MalformedReference, chatPreviews[id])

\* the position of the first "<" of x that no ">" follows, 0 if none
FirstOpen(x) ==
    LET open == {i \in 1..Len(x) : x[i] = "<" /\ \A j \in (i + 1)..Len(x) : x[j] # ">"}
    IN  IF open = {} THEN 0 ELSE CHOOSE i \in open : \A k \in open : i <= k

\* C15 (as stated): for a body with a "<" that no ">" follows, the stored
\* preview is the normalized text before that "<".
C15_UnclosedTagConsumesRest ==
    \A id \in DOMAIN chatPreviews :
        FirstOpen(Body(id)) # 0
            => chatPreviews[id] = normalize(SubSeq(Body(id), 1, FirstOpen(Body(id)) - 1))

\* C15 (amended): tag stripping removes every span from a "<" to the next
\* ">", so that no "<" of the stripped text is followed by a ">"; a "<"
\* that no ">" follows is kept together with the rest of the body, and the
\* stored preview is the decoded stripped text.
C15_OnlyClosedTagsStripped ==
    \A id \in DOMAIN chatPreviews :
        LET x == Body(id)
            t == stripHtmlTags(x)
            o == FirstOpen(x)
        IN  /\ \A i \in 1..Len(t) : t[i] = "<" => \A j \in (i + 1)..Len(t) : t[j] # ">"
            /\ o # 0 => /\ Len(t) >= Len(x) - o + 1
                         /\ SubSeq(t, Len(t) - (Len(x) - o), Len(t)) = SubSeq(x, o, Len(x))
            /\ o = 0 => ~Occurs(<<"<">>, t)
            /\ chatPreviews[id] = decodeHtmlEntities(t)

\* a preview was stored for a body with a closed tag and then an unclosed
\* "<": the tag is gone, the unclosed "<" is shown
C15_Witness ==
    /\ event = "fetchChatPreviewResume"
    /\ "B" \in DOMAIN chatPreviews
    /\ Body("B") = <<"<", ">", "<">>
    /\ chatPreviews["B"] = <<"<">>

StableSorted(r, s, sign) ==
    /\ Len(r) = Len(s)
    /\ \E p \in Permutations(1..Len(s)) :
           /\ \A i \in 1..Len(s) : r[i] = s[p[i]]
           /\ \A i, j \in 1..Len(s) :
                  i < j => /\ sign * (r[j].date - r[i].date) >= 0
                           /\ r[i].date = r[j].date => p[i] < p[j]

\* C16: both thread components render the held messages in ascending
\* timestamp order, messages of equal timestamp in their held order.
C16_ThreadAscendingStable ==
    chat # <<>> =>
        /\ StableSorted(renderedMessages, messages, 1)
        /\ StableSorted(renderedMessagesPlain, messages, 1)

C18_PreviewIsLatestMessage ==
    \A id \in DOMAIN chatPreviews :
        \E k \in 1..Len(srvMessages[id]) :
            /\ \A l \in 1..Len(srvMessages[id]) :
                   srvMessages[id][l].date <= srvMessages[id][k].date
            /\ chatPreviews[id] = normalize(srvMessages[id][k].content)

ThreadCalls ==
    {c \in calls : c.task \in {"fetchMessages", "send"} /\ c.method # "getChats"}

\* C21: the conversation the thread view holds and hands to the manager is
\* an element of the answer of its getChats call with the identifier of the
\* navigation parameters, never the copy without ref that openChat built;
\* every getChatMessages or sendMessageInChat call of the thread view
\* carries it, and while no conversation was found there is no such call,
\* no capability query and no send.
C21_ManagerGetsFetchedChat ==
    [][/\ chat' # chat
           => \E c \in ConsumedCalls :
                  /\ c.method = "getChats"
                  /\ c.st = "ok"
                  /\ \E k \in 1..Len(c.chatsRes) : chat' = <<c.chatsRes[k]>>
                  /\ chat'[1].id = chatParams.id
       /\ chat' # <<>> => chat'[1] # chatParams /\ "ref" \in DOMAIN chat'[1]
       /\ \A c \in ThreadCalls' : chat' # <<>> /\ c.chat = chat'
       /\ chat' = <<>> => /\ ThreadCalls' = {}
                          /\ capabilityContext' = <<>>
                          /\ sendTasks' = <<>>]_vars

\* a send has handed the fetched conversation A, with its ref, to the
\* manager
C21_Witness ==
    /\ event = "send"
    /\ chatParams = ChatData(chatA)
    /\ chat = <<chatA>>
    /\ \E c \in ThreadCalls : c.method = "sendMessageInChat" /\ c.chat = <<chatA>>

\* C22: canReply holds only when the conversation was found and the fetch
\* of the thread has ended without an error, and a step never takes it
\* back to false.
C22_CanReplyStaysTrue ==
    [][/\ canReply' => chat' # <<>> /\ fetchMessagesPc' = "done"
       /\ canReply => canReply']_vars

\* the reply field is still there after a send whose re-fetch failed
C22_Witness ==
    /\ event = "sendAfterGetChatMessages"
    /\ canReply
    /\ \E n \in 1..Len(sendTasks) : sendTasks[n].pc = "refetchFailed"
    /\ \E n \in 1..Len(sendTasks) : sendTasks[n].pc = "sendFailed"

(***************************************************************************)
(* The loading flags                                                       *)
(***************************************************************************)

\* a fetchMessages or a send of the thread view has started and not ended
ThreadBusy ==
    \/ fetchMessagesPc \in {"getChats", "getChatMessages"}
    \/ \E n \in 1..Len(sendTasks) : sendTasks[n].pc \in {"sendMessageInChat", "getChatMessages"}

\* a fetchChats of the list view has started and not ended
ListBusy == \E n \in 1..Len(fetchChatsTasks) : fetchChatsTasks[n] = "getChats"

\* C23: when every started fetch and send has ended, loading is false in
\* the thread view and loading and isManuallyLoading are false in the list
\* view; and when the manager answers every call, a view that is fetching
\* or sending comes to such a state.
C23_LoadingComesToRest ==
    /\ [](~ThreadBusy => ~loading)
    /\ [](~ListBusy => ~listLoading /\ ~isManuallyLoading)
    /\ ThreadBusy ~> (~ThreadBusy /\ ~loading)
    /\ ListBusy ~> (~ListBusy /\ ~listLoading /\ ~isManuallyLoading)

\* the thread view is at rest after a send that failed and a send whose
\* re-fetch failed
C23_Witness ==
    /\ event = "sendAfterSendMessage"
    /\ ~ThreadBusy
    /\ Len(sendTasks) = 2
    /\ sendTasks[1].pc = "refetchFailed"
    /\ sendTasks[2].pc = "sendFailed"
    /\ ~loading

=============================================================================
